---- MODULE Spec2Model ----
(***************************************************************************)
(* Model of the two scripts of the repository:                             *)
(*   exo-1-jsdoc.js      the player-statistics report generator            *)
(*   exo-2-illisible.js  the even/odd number-list analyzer                 *)
(*                                                                         *)
(* JavaScript numbers are modelled as exact rationals n/d in lowest terms  *)
(* together with NaN and +/-Infinity.  On the small integers used here the *)
(* IEEE rounding of a quotient never merges two different rationals and    *)
(* never reorders them, so comparisons and equalities agree with the       *)
(* floating-point ones.  The sign of zero is not modelled (-0 === 0).      *)
(***************************************************************************)
EXTENDS Integers, Sequences, FiniteSets, TLC

(* ------------------------------ bounds --------------------------------- *)
\* longest player list held by players.json
MaxPlayers == 2
\* longest array handed to analyzeNumbers
MaxLen == 3

(* ------------------------- JavaScript values --------------------------- *)
Abs(x) == IF x < 0 THEN -x ELSE x

RECURSIVE GCD(_, _)
GCD(a, b) == IF b = 0 THEN a ELSE GCD(b, a % b)

\* the finite number n/d (d > 0), in lowest terms
Rat(n, d) ==
  LET g == GCD(Abs(n), d)
  IN  [t |-> "number", n |-> n \div g, d |-> d \div g]

Num(i) == Rat(i, 1)
NaN == [t |-> "NaN", n |-> 0, d |-> 1]
\* s = 1 for Infinity, s = -1 for -Infinity
Inf(s) == [t |-> "Infinity", n |-> s, d |-> 1]
Undefined == [t |-> "undefined", n |-> 0, d |-> 1]
Str == [t |-> "string", n |-> 0, d |-> 1]
Null == [t |-> "null", n |-> 0, d |-> 1]

\* typeof v
TypeOf(v) == IF v.t \in {"number", "NaN", "Infinity"} THEN "number" ELSE v.t

IsFinite(v) == v.t = "number"

\* ToNumber(v) for the values above: undefined and a non-numeric string give NaN
ToNumber(v) == IF TypeOf(v) = "number" THEN v ELSE NaN

Sign(i) == IF i < 0 THEN -1 ELSE 1

\* a / b
JsDiv(a0, b0) ==
  LET a == ToNumber(a0)
      b == ToNumber(b0)
  IN  IF a.t = "NaN" \/ b.t = "NaN" THEN NaN
      ELSE IF a.t = "Infinity"
           THEN IF b.t = "Infinity" THEN NaN ELSE Inf(a.n * Sign(b.n))
      ELSE IF b.t = "Infinity" THEN Num(0)
      ELSE IF b.n = 0
           THEN IF a.n = 0 THEN NaN ELSE Inf(Sign(a.n))
      ELSE Rat(a.n * b.d * Sign(b.n), a.d * Abs(b.n))

\* a * b
JsMul(a0, b0) ==
  LET a == ToNumber(a0)
      b == ToNumber(b0)
  IN  IF a.t = "NaN" \/ b.t = "NaN" THEN NaN
      ELSE IF a.t = "Infinity" \/ b.t = "Infinity"
           THEN IF a.n = 0 \/ b.n = 0 THEN NaN ELSE Inf(Sign(a.n) * Sign(b.n))
      ELSE Rat(a.n * b.n, a.d * b.d)

\* a + b (numbers only)
JsAdd(a0, b0) ==
  LET a == ToNumber(a0)
      b == ToNumber(b0)
  IN  IF a.t = "NaN" \/ b.t = "NaN" THEN NaN
      ELSE IF a.t = "Infinity"
           THEN IF b.t = "Infinity" /\ b.n # a.n THEN NaN ELSE a
      ELSE IF b.t = "Infinity" THEN b
      ELSE Rat(a.n * b.d + b.n * a.d, a.d * b.d)

\* a > b
JsGt(a0, b0) ==
  LET a == ToNumber(a0)
      b == ToNumber(b0)
  IN  IF a.t = "NaN" \/ b.t = "NaN" THEN FALSE
      ELSE IF a.t = "Infinity" THEN a.n = 1 /\ ~(b.t = "Infinity" /\ b.n = 1)
      ELSE IF b.t = "Infinity" THEN b.n = -1
      ELSE a.n * b.d > b.n * a.d

\* a <= b
JsLe(a0, b0) ==
  LET a == ToNumber(a0)
      b == ToNumber(b0)
  IN  IF a.t = "NaN" \/ b.t = "NaN" THEN FALSE ELSE ~JsGt(a, b)

\* a === b
JsStrictEq(a, b) == a.t # "NaN" /\ b.t # "NaN" /\ a = b

(* ------------------------ results of a call ---------------------------- *)
Ok(v) == [ok |-> TRUE, val |-> v, err |-> ""]
Throw(msg) == [ok |-> FALSE, val |-> Null, err |-> msg]

ErrLoad == "Erreur lors du chargement du fichier players.json"
ErrPlayer == "Donnees du joueur invalides"
ErrWeeks == "Nombre de semaines invalide"
ErrReduce == "TypeError: Reduce of empty array with no initial value"

(* =========================== exo-1-jsdoc.js ============================ *)

\* a player object as JSON.parse yields it; a missing field is Undefined
Player(id, name, matches, wins, hoursPlayed) ==
  [kind |-> "object", id |-> id, name |-> name, matches |-> matches,
   wins |-> wins, hoursPlayed |-> hoursPlayed]

NullPlayer ==
  [kind |-> "null", id |-> 0, name |-> "", matches |-> Undefined,
   wins |-> Undefined, hoursPlayed |-> Undefined]

\* the content of players.json: unreadable, not JSON, or a JSON array
File(readable, json, players) ==
  [readable |-> readable, json |-> json, players |-> players]

\* loadPlayers(): readFile + JSON.parse, any failure rethrown as one Error
loadPlayers(file) ==
  IF file.readable /\ file.json THEN Ok(file.players) ELSE Throw(ErrLoad)

\* calculateWinRate without its test of matches === 0
calculateWinRateNoGuard(player) ==
  IF player.kind = "null" \/ TypeOf(player.matches) # "number"
     \/ TypeOf(player.wins) # "number"
  THEN Throw(ErrPlayer)
  ELSE Ok(JsMul(JsDiv(player.wins, player.matches), Num(100)))

calculateWinRate(player) ==
  IF player.kind = "null" \/ TypeOf(player.matches) # "number"
     \/ TypeOf(player.wins) # "number"
  THEN Throw(ErrPlayer)
  ELSE IF JsStrictEq(player.matches, Num(0))
       THEN Ok(Num(0))
       ELSE Ok(JsMul(JsDiv(player.wins, player.matches), Num(100)))

calculateAverageHours(player, totalWeeks) ==
  IF TypeOf(totalWeeks) # "number" \/ JsLe(totalWeeks, Num(0))
  THEN Throw(ErrWeeks)
  ELSE Ok(JsDiv(player.hoursPlayed, totalWeeks))

Stat(id, name, winRate, avgHours) ==
  [id |-> id, name |-> name, winRate |-> winRate, avgHours |-> avgHours]

\* the callback of players.map: winRate is evaluated before avgHours
statOf(p, totalWeeks) ==
  LET w == calculateWinRate(p)
      h == calculateAverageHours(p, totalWeeks)
  IN  IF ~w.ok THEN w
      ELSE IF ~h.ok THEN h
      ELSE Ok(Stat(p.id, p.name, w.val, h.val))

\* players.map(callback): in index order, the first throw ends the map
RECURSIVE mapStats(_, _)
mapStats(players, totalWeeks) ==
  IF players = <<>> THEN Ok(<<>>)
  ELSE LET first == statOf(Head(players), totalWeeks)
           rest == mapStats(Tail(players), totalWeeks)
       IN  IF ~first.ok THEN first
           ELSE IF ~rest.ok THEN rest
           ELSE Ok(<<first.val>> \o rest.val)

\* a map that collects the stats in reverse order
RECURSIVE mapStatsReversed(_, _)
mapStatsReversed(players, totalWeeks) ==
  IF players = <<>> THEN Ok(<<>>)
  ELSE LET first == statOf(Head(players), totalWeeks)
           rest == mapStatsReversed(Tail(players), totalWeeks)
       IN  IF ~first.ok THEN first
           ELSE IF ~rest.ok THEN rest
           ELSE Ok(rest.val \o <<first.val>>)

DefaultTotalWeeks == 12

analyzePlayerStatsReversed(file, totalWeeks) ==
  LET weeks == IF totalWeeks = Undefined THEN Num(DefaultTotalWeeks) ELSE totalWeeks
      players == loadPlayers(file)
  IN  IF ~players.ok THEN players ELSE mapStatsReversed(players.val, weeks)

\* analyzePlayerStats(totalWeeks = 12), reading the given content of players.json
analyzePlayerStats(file, totalWeeks) ==
  LET weeks == IF totalWeeks = Undefined THEN Num(DefaultTotalWeeks) ELSE totalWeeks
      players == loadPlayers(file)
  IN  IF ~players.ok THEN players ELSE mapStats(players.val, weeks)

\* a callback that lets a later stat replace an equal best
betterOrEqual(best, current) ==
  IF JsGt(best.winRate, current.winRate) THEN best ELSE current

\* (best, current) => current.winRate > best.winRate ? current : best
better(best, current) ==
  IF JsGt(current.winRate, best.winRate) THEN current ELSE best

\* a callback that keeps the earlier of two equally active stats
moreActiveKeepFirst(a, b) ==
  IF JsGt(b.avgHours, a.avgHours) THEN b ELSE a

\* (a, b) => a.avgHours > b.avgHours ? a : b
moreActive(a, b) ==
  IF JsGt(a.avgHours, b.avgHours) THEN a ELSE b

sumWinRate(sum, p) == JsAdd(sum, p.winRate)
sumAvgHours(sum, p) == JsAdd(sum, p.avgHours)

\* callback(accumulator, element), for the callbacks handed to reduce
callback(f, acc, x) ==
  CASE f = "better" -> better(acc, x)
    [] f = "moreActive" -> moreActive(acc, x)
    [] f = "sumWinRate" -> sumWinRate(acc, x)
    [] f = "sumAvgHours" -> sumAvgHours(acc, x)
    [] f = "add" -> JsAdd(acc, x)

\* arr.reduce(f, initial)
RECURSIVE reduceFrom(_, _, _)
reduceFrom(f, acc, arr) ==
  IF arr = <<>> THEN acc ELSE reduceFrom(f, callback(f, acc, Head(arr)), Tail(arr))

\* arr.reduce(f): throws a TypeError on an empty array
reduce(f, arr) ==
  IF arr = <<>> THEN Throw(ErrReduce) ELSE Ok(reduceFrom(f, Head(arr), Tail(arr)))

\* a reduce seeded with an empty stat, which returns it for an empty array
topOfSeeded(stats) == Ok(reduceFrom("better", Stat(0, "", Undefined, Undefined), stats))

\* the reduce of findTopPlayer over already computed stats
topOf(stats) == reduce("better", stats)

\* findTopPlayer(): its own load, with the default totalWeeks
findTopPlayer(file) ==
  LET stats == analyzePlayerStats(file, Undefined)
  IN  IF ~stats.ok THEN stats ELSE topOf(stats.val)

GlobalReport(averageWinRate, averageHours, mostActivePlayer) ==
  [averageWinRate |-> averageWinRate, averageHours |-> averageHours,
   mostActivePlayer |-> mostActivePlayer]

\* the body of generateGlobalReport after its load
globalOf(stats) ==
  LET totalWinRate == reduceFrom("sumWinRate", Num(0), stats)
      totalHours == reduceFrom("sumAvgHours", Num(0), stats)
      mostActive == reduce("moreActive", stats)
  IN  IF ~mostActive.ok THEN mostActive
      ELSE Ok(GlobalReport(JsDiv(totalWinRate, Num(Len(stats))),
                           JsDiv(totalHours, Num(Len(stats))),
                           mostActive.val.name))

\* generateGlobalReport(): its own load, with the default totalWeeks
generateGlobalReport(file) ==
  LET stats == analyzePlayerStats(file, Undefined)
  IN  IF ~stats.ok THEN stats ELSE globalOf(stats.val)

\* JSON.stringify of a number: NaN and the infinities are written as null
jsonNumber(v) == IF v.t \in {"NaN", "Infinity"} THEN Null ELSE v

jsonStat(s) == Stat(s.id, s.name, jsonNumber(s.winRate), jsonNumber(s.avgHours))

\* what report.json holds after saveReport({ stats, topPlayer, global })
stringify(stats, top, global) ==
  [written |-> TRUE,
   stats |-> [i \in 1..Len(stats) |-> jsonStat(stats[i])],
   topPlayer |-> jsonStat(top),
   global |-> GlobalReport(jsonNumber(global.averageWinRate),
                           jsonNumber(global.averageHours),
                           global.mostActivePlayer)]

MainTotalWeeks == 10

(* ========================= exo-2-illisible.js ========================== *)

\* a % b for finite a and a positive integer b (the sign follows a)
JsRem(a0, b) ==
  LET a == ToNumber(a0)
  IN  IF a.t # "number" THEN NaN
      ELSE LET q == Sign(a.n) * (Abs(a.n) \div (a.d * b))
           IN  Rat(a.n - q * b * a.d, a.d)

isEven(num) == JsStrictEq(JsRem(num, 2), Num(0))
isOdd(num) == ~JsStrictEq(JsRem(num, 2), Num(0))
\* num % 2 === 1, which no negative number satisfies
isOne(num) == JsStrictEq(JsRem(num, 2), Num(1))

\* predicate(element), for the predicates handed to filter
predicate(P, num) ==
  CASE P = "isEven" -> isEven(num)
    [] P = "isOdd" -> isOdd(num)
    [] P = "isOne" -> isOne(num)

\* arr.filter(P)
RECURSIVE filter(_, _)
filter(P, arr) ==
  IF arr = <<>> THEN <<>>
  ELSE IF predicate(P, Head(arr)) THEN <<Head(arr)>> \o filter(P, Tail(arr))
       ELSE filter(P, Tail(arr))

separateEvenOddRemOne(list) ==
  [even |-> filter("isEven", list), odd |-> filter("isOne", list)]

separateEvenOdd(list) ==
  [even |-> filter("isEven", list), odd |-> filter("isOdd", list)]

\* (a, b) => a - b  is positive
ascending(a, b) == JsGt(a, b)
\* (a, b) => b - a  is positive
descending(a, b) == JsGt(b, a)

\* cmp(a, b) > 0, for the comparators handed to sort
after(cmp, a, b) ==
  CASE cmp = "ascending" -> ascending(a, b)
    [] cmp = "descending" -> descending(a, b)

\* one insertion of a stable sort: x goes before the first e with cmp(e, x) > 0
RECURSIVE insert(_, _, _)
insert(cmp, x, sorted) ==
  IF sorted = <<>> THEN <<x>>
  ELSE IF after(cmp, Head(sorted), x) THEN <<x>> \o sorted
       ELSE <<Head(sorted)>> \o insert(cmp, x, Tail(sorted))

\* arr.slice().sort(cmp)
RECURSIVE sortBy(_, _)
sortBy(cmp, arr) ==
  IF arr = <<>> THEN <<>>
  ELSE insert(cmp, arr[Len(arr)], sortBy(cmp, SubSeq(arr, 1, Len(arr) - 1)))

sortAscending(arr) == sortBy("ascending", arr)

sortDescending(arr) == sortBy("descending", arr)

calculateAverage(arr) ==
  IF Len(arr) = 0 THEN Num(0)
  ELSE JsDiv(reduceFrom("add", Num(0), arr), Num(Len(arr)))

\* an argument of analyzeNumbers: an array of values, or something that is no array
Arg(isArray, items) == [isArray |-> isArray, items |-> items]

Analysis(isNull, evenNumbers, oddNumbers, averageEven, averageOdd) ==
  [isNull |-> isNull, evenNumbers |-> evenNumbers, oddNumbers |-> oddNumbers,
   averageEven |-> averageEven, averageOdd |-> averageOdd]

\* the value returned from the catch block
NullAnalysis == Analysis(TRUE, <<>>, <<>>, Num(0), Num(0))

isValidNumber(n) == TypeOf(n) = "number" /\ n.t # "NaN"

analyzeNumbers(list) ==
  IF ~list.isArray THEN NullAnalysis
  ELSE IF Len(list.items) = 0 THEN NullAnalysis
  ELSE IF ~(\A i \in 1..Len(list.items) : isValidNumber(list.items[i]))
       THEN NullAnalysis
  ELSE LET parts == separateEvenOdd(list.items)
           sortedEven == sortAscending(parts.even)
           sortedOdd == sortDescending(parts.odd)
       IN  Analysis(FALSE, sortedEven, sortedOdd,
                    calculateAverage(sortedEven), calculateAverage(sortedOdd))

(* ============================ state machine ============================ *)

VARIABLES
  pc,            \* main: the await it is suspended at, or "done" / "failed"
  playersFile,   \* the content of ./players.json
  stats,         \* main: const stats
  top,           \* main: const top
  global,        \* main: const report
  reportFile,    \* the content of ./report.json
  failedAt,      \* the stage whose rejection ended main ("" while none has)
  writes,        \* history: calls of fs.writeFile on ./report.json
  reportAtStart, \* history: ./report.json when main started
  rewritten,     \* history: players.json was rewritten between two loads
  fnName,        \* the function of the last direct call
  fnArgs,        \* its arguments
  fnResult       \* what it returned or threw

mainVars == <<pc, playersFile, stats, top, global, reportFile, failedAt,
              writes, reportAtStart, rewritten>>
fnVars == <<fnName, fnArgs, fnResult>>
vars == <<pc, playersFile, stats, top, global, reportFile, failedAt,
          writes, reportAtStart, rewritten, fnName, fnArgs, fnResult>>

(* ------------------------------ inputs --------------------------------- *)
\* the player records a players.json is built from: A and B share a win rate,
\* A and C share their hours and C never played, D lacks its matches field
PlayerRecords ==
  { Player(1, "A", Num(2), Num(1), Num(60)),
    Player(2, "B", Num(4), Num(2), Num(120)),
    Player(3, "C", Num(0), Num(0), Num(60)),
    Player(4, "D", Undefined, Num(1), Num(30)) }

SeqsUpTo(S, n) == UNION { [1..k -> S] : k \in 0..n }

PlayerLists == SeqsUpTo(PlayerRecords, MaxPlayers)

Files ==
  { File(FALSE, FALSE, <<>>), File(TRUE, FALSE, <<>>) }
  \cup { File(TRUE, TRUE, ps) : ps \in PlayerLists }

\* values a matches or wins field can hold
FieldValues ==
  { Num(-2), Num(-1), Num(0), Num(1), Num(2), Num(3), NaN, Inf(1), Undefined, Str }

WinRatePlayers ==
  { NullPlayer } \cup
  { Player(1, "A", m, w, Num(60)) : m \in FieldValues, w \in FieldValues }

HoursPlayers ==
  { Player(1, "A", Num(2), Num(1), h) : h \in {Num(0), Num(60), Num(90), Undefined} }

WeeksValues ==
  { Num(-1), Num(0), Num(8), Num(10), Num(12), NaN, Inf(1), Undefined, Str }

\* elements of an array handed to analyzeNumbers
NumberValues == { Num(i) : i \in -3..4 } \cup { NaN, Str }

NumberArgs ==
  { Arg(FALSE, <<>>) } \cup { Arg(TRUE, l) : l \in SeqsUpTo(NumberValues, MaxLen) }

(* ------------------------------- main ---------------------------------- *)
NoStat == Stat(0, "", Undefined, Undefined)
NoGlobal == GlobalReport(Undefined, Undefined, "")

ReportFile(state, s, t, g) ==
  [state |-> state, stats |-> s, topPlayer |-> t, global |-> g]

Absent == ReportFile("absent", <<>>, NoStat, NoGlobal)
Truncated == ReportFile("truncated", <<>>, NoStat, NoGlobal)
\* a report written by an earlier run
Earlier ==
  ReportFile("report", <<Stat(3, "C", Num(0), Num(6))>>, Stat(3, "C", Num(0), Num(5)),
             GlobalReport(Num(0), Num(5), "C"))

NoCall == /\ fnName = ""
          /\ fnArgs = <<>>
          /\ fnResult = Ok(Null)

NoRun == /\ pc = "idle"
         /\ playersFile = File(FALSE, FALSE, <<>>)
         /\ stats = <<>>
         /\ top = NoStat
         /\ global = NoGlobal
         /\ reportFile = Absent
         /\ failedAt = ""
         /\ writes = 0
         /\ reportAtStart = Absent
         /\ rewritten = FALSE

Init ==
  /\ pc = "analyze"
  /\ playersFile \in Files
  /\ stats = <<>>
  /\ top = NoStat
  /\ global = NoGlobal
  /\ reportFile \in {Absent, Earlier}
  /\ failedAt = ""
  /\ writes = 0
  /\ reportAtStart = reportFile
  /\ rewritten = FALSE
  /\ NoCall

\* const stats = await analyzePlayerStats(10);
AnalyzeStep ==
  /\ pc = "analyze"
  /\ LET r == analyzePlayerStats(playersFile, Num(MainTotalWeeks))
     IN  IF r.ok
         THEN /\ stats' = r.val
              /\ pc' = "top"
              /\ failedAt' = failedAt
         ELSE /\ stats' = stats
              /\ pc' = "failed"
              /\ failedAt' = "analyze"
  /\ UNCHANGED <<playersFile, top, global, reportFile, writes, reportAtStart,
                 rewritten, fnVars>>

\* a main that catches the rejection of findTopPlayer and goes on
FindTopStepCaught ==
  /\ pc = "top"
  /\ LET r == findTopPlayer(playersFile)
     IN  IF r.ok
         THEN /\ top' = r.val
              /\ pc' = "global"
              /\ failedAt' = failedAt
         ELSE /\ top' = top
              /\ pc' = "global"
              /\ failedAt' = "top"
  /\ UNCHANGED <<playersFile, stats, global, reportFile, writes, reportAtStart,
                 rewritten, fnVars>>

\* const top = await findTopPlayer();
FindTopStep ==
  /\ pc = "top"
  /\ LET r == findTopPlayer(playersFile)
     IN  IF r.ok
         THEN /\ top' = r.val
              /\ pc' = "global"
              /\ failedAt' = failedAt
         ELSE /\ top' = top
              /\ pc' = "failed"
              /\ failedAt' = "top"
  /\ UNCHANGED <<playersFile, stats, global, reportFile, writes, reportAtStart,
                 rewritten, fnVars>>

\* const report = await generateGlobalReport();
GlobalStep ==
  /\ pc = "global"
  /\ LET r == generateGlobalReport(playersFile)
     IN  IF r.ok
         THEN /\ global' = r.val
              /\ pc' = "save"
              /\ failedAt' = failedAt
         ELSE /\ global' = global
              /\ pc' = "failed"
              /\ failedAt' = "global"
  /\ UNCHANGED <<playersFile, stats, top, reportFile, writes, reportAtStart,
                 rewritten, fnVars>>

\* await saveReport({ stats, topPlayer: top, global: report }); and the four logs
SaveStep ==
  /\ pc = "save"
  /\ LET r == stringify(stats, top, global)
     IN  reportFile' = ReportFile("report", r.stats, r.topPlayer, r.global)
  /\ writes' = writes + 1
  /\ pc' = "done"
  /\ UNCHANGED <<playersFile, stats, top, global, failedAt, reportAtStart,
                 rewritten, fnVars>>

\* fs.writeFile rejects: the file could not be opened, or was opened (and so
\* truncated) and not written
SaveFails ==
  /\ pc = "save"
  /\ reportFile' \in {reportFile, Truncated}
  /\ writes' = writes + 1
  /\ pc' = "failed"
  /\ failedAt' = "save"
  /\ UNCHANGED <<playersFile, stats, top, global, reportAtStart, rewritten, fnVars>>

\* another process rewrites players.json while main is suspended between two of
\* its three loads (the file is read nowhere else, so a rewrite before the
\* first load is another initial content and one after the last has no effect)
Rewrite ==
  /\ pc \in {"top", "global"}
  /\ \E f \in Files :
       /\ f # playersFile
       /\ playersFile' = f
  /\ rewritten' = TRUE
  /\ UNCHANGED <<pc, stats, top, global, reportFile, failedAt, writes,
                 reportAtStart, fnVars>>

Next ==
  \/ AnalyzeStep
  \/ FindTopStep
  \/ GlobalStep
  \/ SaveStep
  \/ SaveFails
  \/ Rewrite

\* one run of main of exo-1-jsdoc.js
Spec == Init /\ [][Next]_vars

(* ------------------------- direct calls, exo-1 -------------------------- *)
InitFunctions == NoRun /\ NoCall

CallCalculateWinRate ==
  /\ fnName = ""
  /\ \E p \in WinRatePlayers :
       /\ fnName' = "calculateWinRate"
       /\ fnArgs' = <<p>>
       /\ fnResult' = calculateWinRate(p)
  /\ UNCHANGED mainVars

CallCalculateAverageHours ==
  /\ fnName = ""
  /\ \E p \in HoursPlayers, w \in WeeksValues :
       /\ fnName' = "calculateAverageHours"
       /\ fnArgs' = <<p, w>>
       /\ fnResult' = calculateAverageHours(p, w)
  /\ UNCHANGED mainVars

CallAnalyzePlayerStats ==
  /\ fnName = ""
  /\ \E f \in Files, w \in {Undefined, Num(8), Num(10), Num(0)} :
       /\ fnName' = "analyzePlayerStats"
       /\ fnArgs' = <<f, w>>
       /\ fnResult' = analyzePlayerStats(f, w)
  /\ UNCHANGED mainVars

CallFindTopPlayer ==
  /\ fnName = ""
  /\ \E f \in Files :
       /\ fnName' = "findTopPlayer"
       /\ fnArgs' = <<f>>
       /\ fnResult' = findTopPlayer(f)
  /\ UNCHANGED mainVars

CallGenerateGlobalReport ==
  /\ fnName = ""
  /\ \E f \in Files :
       /\ fnName' = "generateGlobalReport"
       /\ fnArgs' = <<f>>
       /\ fnResult' = generateGlobalReport(f)
  /\ UNCHANGED mainVars

\* the call has returned or thrown; the next one starts from scratch
Return ==
  /\ fnName # ""
  /\ fnName' = ""
  /\ fnArgs' = <<>>
  /\ fnResult' = Ok(Null)
  /\ UNCHANGED mainVars

NextFunctions ==
  \/ CallCalculateWinRate
  \/ CallCalculateAverageHours
  \/ CallAnalyzePlayerStats
  \/ CallFindTopPlayer
  \/ CallGenerateGlobalReport
  \/ Return

\* the functions of exo-1-jsdoc.js called one at a time on every input
SpecFunctions == InitFunctions /\ [][NextFunctions]_vars

(* ------------------------- direct calls, exo-2 -------------------------- *)
CallAnalyzeNumbers ==
  /\ fnName = ""
  /\ \E list \in NumberArgs :
       /\ fnName' = "analyzeNumbers"
       /\ fnArgs' = <<list>>
       /\ fnResult' = analyzeNumbers(list)
  /\ UNCHANGED mainVars

NextNumbers == CallAnalyzeNumbers \/ Return

\* analyzeNumbers of exo-2-illisible.js called on every input
SpecNumbers == InitFunctions /\ [][NextNumbers]_vars

(* =============================== claims ================================ *)

\* the arithmetic mean of the numbers of a non-empty sequence
MeanOf(values) == JsDiv(reduceFrom("add", Num(0), values), Num(Len(values)))

WinRates(ss) == [i \in 1..Len(ss) |-> ss[i].winRate]
AvgHours(ss) == [i \in 1..Len(ss) |-> ss[i].avgHours]

\* a record that satisfies the record invariant: finite, non-negative matches and wins
ValidField(v) == IsFinite(v) /\ v.n >= 0
ValidRecord(p) == p.kind = "object" /\ ValidField(p.matches) /\ ValidField(p.wins)
ValidFile(f) ==
  /\ f.readable /\ f.json
  /\ \A i \in 1..Len(f.players) : ValidRecord(f.players[i])

\* the stats the call read, for a call that loads players.json with the default weeks
StatsRead == analyzePlayerStats(fnArgs[1], Undefined).val

\* index of the first, and of the last, maximum of a sequence of finite numbers
IsMax(values, i) == \A j \in 1..Len(values) : ~JsGt(values[j], values[i])
FirstMax(values) ==
  CHOOSE i \in 1..Len(values) :
    IsMax(values, i) /\ \A j \in 1..(i - 1) : ~IsMax(values, j)
LastMax(values) ==
  CHOOSE i \in 1..Len(values) :
    IsMax(values, i) /\ \A j \in (i + 1)..Len(values) : ~IsMax(values, j)

\* C1: in the persisted report of a run during which players.json was not
\* rewritten, topPlayer equals an element of stats field for field and
\* global.averageHours is the mean of the avgHours of stats (one totalWeeks, 10,
\* for every avgHours-based value).
C1_OneTotalWeeks ==
  (pc = "done" /\ ~rewritten) =>
    /\ \E i \in 1..Len(reportFile.stats) : reportFile.topPlayer = reportFile.stats[i]
    /\ reportFile.global.averageHours = MeanOf(AvgHours(reportFile.stats))

\* C2 (as stated): for a non-empty list of valid records, mostActivePlayer is the
\* name of the first stat, in input order, whose avgHours is maximal.
C2_MostActiveFirstMax ==
  (fnName = "generateGlobalReport" /\ ValidFile(fnArgs[1]) /\ fnArgs[1].players # <<>>) =>
    /\ fnResult.ok
    /\ fnResult.val.mostActivePlayer = StatsRead[FirstMax(AvgHours(StatsRead))].name

\* C2 (amended): for a non-empty list of valid records, mostActivePlayer is the
\* name of a stat whose avgHours is maximal, and among several it is the last of
\* them in input order.
C2_MostActiveLastMax ==
  (fnName = "generateGlobalReport" /\ ValidFile(fnArgs[1]) /\ fnArgs[1].players # <<>>) =>
    /\ fnResult.ok
    /\ fnResult.val.mostActivePlayer = StatsRead[LastMax(AvgHours(StatsRead))].name

\* C2 witness: two stats with different names share the maximal avgHours and the
\* later one is reported.
C2_Witness ==
  /\ fnName = "generateGlobalReport"
  /\ ValidFile(fnArgs[1])
  /\ Len(fnArgs[1].players) >= 2
  /\ FirstMax(AvgHours(StatsRead)) # LastMax(AvgHours(StatsRead))
  /\ StatsRead[FirstMax(AvgHours(StatsRead))].name # fnResult.val.mostActivePlayer
  /\ StatsRead[LastMax(AvgHours(StatsRead))].name = fnResult.val.mostActivePlayer

\* C3: for a non-empty list of valid records, findTopPlayer returns the first
\* stat, in input order, whose winRate is maximal.
C3_TopIsFirstMax ==
  (fnName = "findTopPlayer" /\ ValidFile(fnArgs[1]) /\ fnArgs[1].players # <<>>) =>
    /\ fnResult.ok
    /\ fnResult.val = StatsRead[FirstMax(WinRates(StatsRead))]

\* C3 witness: two different stats share the maximal winRate and the earlier one
\* is returned.
C3_Witness ==
  /\ fnName = "findTopPlayer"
  /\ ValidFile(fnArgs[1])
  /\ Len(fnArgs[1].players) >= 2
  /\ StatsRead[LastMax(WinRates(StatsRead))] # StatsRead[FirstMax(WinRates(StatsRead))]
  /\ fnResult.val = StatsRead[FirstMax(WinRates(StatsRead))]

\* C4: for finite matches and wins, calculateWinRate returns 0 when matches = 0
\* whatever wins is, and otherwise the number r with r * matches = wins * 100;
\* when 0 <= wins <= matches, 0 <= r <= 100.
C4_WinRateValue ==
  (fnName = "calculateWinRate" /\ fnArgs[1].kind = "object"
     /\ IsFinite(fnArgs[1].matches) /\ IsFinite(fnArgs[1].wins)) =>
    LET m == fnArgs[1].matches.n
        w == fnArgs[1].wins.n
        r == fnResult.val
    IN  /\ fnResult.ok
        /\ IsFinite(r)
        /\ m = 0 => r = Num(0)
        /\ m # 0 => r.n * m = w * 100 * r.d
        /\ (0 <= w /\ w <= m) => (0 <= r.n /\ r.n <= 100 * r.d)

\* C4 witness: a record with no match and some wins gets 0.
C4_Witness ==
  /\ fnName = "calculateWinRate"
  /\ fnArgs[1].kind = "object"
  /\ fnArgs[1].matches = Num(0)
  /\ fnArgs[1].wins = Num(3)
  /\ fnResult = Ok(Num(0))

\* C5: calculateWinRate throws for every record whose matches or wins is
\* missing, not a number, not finite, or negative.
C5_InvalidRecordThrows ==
  (fnName = "calculateWinRate" /\ ~ValidRecord(fnArgs[1])) => ~fnResult.ok

\* C6: for a list of valid records and a valid totalWeeks, analyzePlayerStats
\* returns as many stats as records, the i-th carrying the id, the name, the
\* winRate and the avgHours of the i-th record.
C6_OneStatPerRecord ==
  (fnName = "analyzePlayerStats" /\ ValidFile(fnArgs[1])
     /\ (fnArgs[2] = Undefined \/ (IsFinite(fnArgs[2]) /\ fnArgs[2].n > 0))) =>
    LET players == fnArgs[1].players
        weeks == IF fnArgs[2] = Undefined THEN Num(12) ELSE fnArgs[2]
        out == fnResult.val
    IN  /\ fnResult.ok
        /\ Len(out) = Len(players)
        /\ \A i \in 1..Len(players) :
             /\ out[i].id = players[i].id
             /\ out[i].name = players[i].name
             /\ out[i].winRate = calculateWinRate(players[i]).val
             /\ out[i].avgHours.n * weeks.n * players[i].hoursPlayed.d
                  = players[i].hoursPlayed.n * out[i].avgHours.d

\* C6 witness: two different valid records, analysed in their order.
C6_Witness ==
  /\ fnName = "analyzePlayerStats"
  /\ ValidFile(fnArgs[1])
  /\ fnArgs[2] = Num(10)
  /\ Len(fnArgs[1].players) = 2
  /\ fnArgs[1].players[1].id # fnArgs[1].players[2].id
  /\ fnResult.ok
  /\ fnResult.val[1].id = fnArgs[1].players[1].id
  /\ fnResult.val[2].id = fnArgs[1].players[2].id

\* C7: report.json is written at most once, only after the three stages before
\* the save have succeeded; when one of them fails the run is over and
\* report.json is what it was when the run started.
C7_NoPartialReport ==
  /\ writes <= 1
  /\ writes = 0 => reportFile = reportAtStart
  /\ writes = 1 => (pc \in {"done", "failed"} /\ failedAt \in {"", "save"})
  /\ failedAt \in {"analyze", "top", "global"} =>
       (pc = "failed" /\ writes = 0 /\ reportFile = reportAtStart)
  /\ reportFile # reportAtStart => failedAt \in {"", "save"}

\* C7 witness: the third stage failed after two that succeeded, next to a report
\* of an earlier run.
C7_Witness ==
  /\ pc = "failed"
  /\ failedAt = "global"
  /\ reportAtStart = Earlier
  /\ reportFile = Earlier

\* C8: on an empty player list findTopPlayer and generateGlobalReport both throw.
C8_EmptyListThrows ==
  (fnName \in {"findTopPlayer", "generateGlobalReport"}
     /\ fnArgs[1] = File(TRUE, TRUE, <<>>)) =>
    (~fnResult.ok /\ fnResult.err = ErrReduce)

\* C8 witness: generateGlobalReport has thrown on the empty list.
C8_Witness ==
  /\ fnName = "generateGlobalReport"
  /\ fnArgs[1] = File(TRUE, TRUE, <<>>)
  /\ ~fnResult.ok

\* C9: the persisted topPlayer and global are the top player and the aggregates
\* of the persisted stats, whatever happens to players.json during the run.
\* (Stated on what does not depend on totalWeeks: who the top player is and its
\* winRate, the mean winRate, and who is the most active.)
C9_OneSnapshot ==
  pc = "done" =>
    LET ss == reportFile.stats
    IN  /\ ss # <<>>
        /\ reportFile.topPlayer.id = topOf(ss).val.id
        /\ reportFile.topPlayer.name = topOf(ss).val.name
        /\ reportFile.topPlayer.winRate = topOf(ss).val.winRate
        /\ reportFile.global.averageWinRate = MeanOf(WinRates(ss))
        /\ reportFile.global.mostActivePlayer = globalOf(ss).val.mostActivePlayer

\* integers, as analyzeNumbers is given them
IsInt(v) == IsFinite(v) /\ v.d = 1
Count(v, arr) == Cardinality({i \in 1..Len(arr) : arr[i] = v})
RECURSIVE IntSum(_)
IntSum(arr) == IF arr = <<>> THEN 0 ELSE Head(arr).n + IntSum(Tail(arr))
IntMean(arr) == IF arr = <<>> THEN Num(0) ELSE Rat(IntSum(arr), Len(arr))

====
